---------------------------- MODULE Spec2Model ----------------------------
(***************************************************************************)
(* A model of install.py (AS-Tunnel): the TunnelManager that writes the    *)
(* two Traefik configuration documents (traefik.yml, dynamic.yml), drives  *)
(* the traefik-tunnel systemd service and supervises it from a monitor     *)
(* thread.                                                                 *)
(*                                                                         *)
(* Conventions.                                                            *)
(*  - A Python dict is a TLA+ function; None and a raised exception are    *)
(*    the records [py |-> "None"] and [py |-> <exception>] (no document    *)
(*    has a key "py").                                                     *)
(*  - A port as typed by the operator is a sequence of one-character       *)
(*    strings, <<"8","0">>, so that int() is computed from its digits.     *)
(*  - An entrypoint/router/service name is the sequence of its             *)
(*    "_"-separated fields, the last one the port text: "tcp_router_80"    *)
(*    is <<"tcp", "router", <<"8","0">>>>.                                 *)
(*  - An address "host:port" is the pair <<host, port text>> around its    *)
(*    last colon.                                                          *)
(*  - A file's text is the sequence of the blocks yaml.dump emits, one per *)
(*    top-level key in sorted order; a partially written file is a prefix. *)
(***************************************************************************)
EXTENDS Naturals, Sequences, FiniteSets, TLC

VARIABLES
    files,      \* CONFIG_FILE / DYNAMIC_FILE on disk: [exists, text]
    svc,        \* the traefik-tunnel service: [active, ports bound by the engine]
    pc,         \* position of the main thread inside the current operation
    op,         \* the operation in progress: its name and arguments
    mem,        \* the operation's in-memory documents (traefik_config, dynamic_config)
    last,       \* what the last finished operation returned: [op, ok, err, at]
    running,    \* TunnelManager.running
    monitor_thread, \* TunnelManager.monitor_thread: 0 is None, else a thread id
    threads,    \* every monitor thread of this process: its position
    mon,        \* history: thread 1's recovery cycle and its sleeps after a stop
    declared,   \* history: the ports added and not since deleted
    trip,       \* history: an add of undeclared ports, then the delete of the same
    prev,       \* history: each file's content when the current save opened it
    seen        \* what the concurrent reader loaded, and what was being saved

vars == <<files, svc, pc, op, mem, last, running, monitor_thread, threads,
          mon, declared, trip, prev, seen>>

(***************************************************************************)
(* Program constants and model bounds                                      *)
(***************************************************************************)
RETRY_ATTEMPTS == 3
RETRY_DELAY == 5
KEEPALIVE_INTERVAL == 30
\* the literal of time.sleep(10) in _check_service_health
SETTLE_DELAY == 10

\* longest list of ports one request carries
MaxPorts == 2
\* most monitor threads one process starts
MaxThreads == 2

CONFIG_FILE == "/etc/traefik/traefik.yml"
DYNAMIC_FILE == "/etc/traefik/dynamic.yml"
FileNames == {CONFIG_FILE, DYNAMIC_FILE}

(***************************************************************************)
(* Python values                                                           *)
(***************************************************************************)
None == [py |-> "None"]
Raise(kind) == [py |-> kind]
IsExc(v) == "py" \in DOMAIN v /\ v # None
EmptyDict == [k \in {} |-> TRUE]

\* Python truthiness of a loaded document: None and {} are falsy.
Falsy(v) == v = None \/ DOMAIN v = {}

DictSet(d, k, v) == [x \in DOMAIN d \cup {k} |-> IF x = k THEN v ELSE d[x]]
DictDel(d, k) == [x \in DOMAIN d \ {k} |-> d[x]]
\* dict.get(k, default)
DictGet(d, k, default) == IF k \in DOMAIN d THEN d[k] ELSE default

Digits == <<"0", "1", "2", "3", "4", "5", "6", "7", "8", "9">>
IsDigit(c) == \E i \in 1..Len(Digits) : Digits[i] = c
DigitVal(c) == (CHOOSE i \in 1..Len(Digits) : Digits[i] = c) - 1

RECURSIVE IntAcc(_, _)
IntAcc(chars, acc) ==
    IF chars = <<>> THEN acc
    ELSE IntAcc(Tail(chars), acc * 10 + DigitVal(chars[1]))

\* int(port): the number, or ValueError for text that is not a decimal literal
ParseInt(chars) ==
    IF chars = <<>> \/ \E i \in 1..Len(chars) : ~IsDigit(chars[i])
    THEN Raise("ValueError")
    ELSE [int |-> IntAcc(chars, 0)]

(***************************************************************************)
(* Derived names (the f-strings of _update_*_config and delete_tunnel)     *)
(***************************************************************************)
EntryPointName(port) == <<"port", port>>
RouterName(port) == <<"tcp", "router", port>>
ServiceName(port) == <<"tcp", "service", port>>
AdminEntryPoint == <<"traefik">>

(***************************************************************************)
(* Request inputs                                                          *)
(***************************************************************************)
IpVersions == {"4", "6", "5"}
Backends == {"10.0.0.5", "::1"}
\* what the operator may type for one port
PortTexts == {<<"8", "0">>, <<"8", "1">>, <<"8", "2">>, <<"0">>, <<"x">>}

PortSet(ports) == {ports[i] : i \in 1..Len(ports)}

RECURSIVE SeqsUpTo(_, _)
\* the sequences over S of length 1..n
SeqsUpTo(S, n) ==
    IF n = 0 THEN {}
    ELSE LET shorter == SeqsUpTo(S, n - 1)
         IN  {<<x>> : x \in S} \cup shorter
                \cup {Append(q, x) : q \in shorter, x \in S}

PortLists == SeqsUpTo(PortTexts, MaxPorts)

\* the ports some process other than the proxy engine has bound
ForeignBound == {82}

(***************************************************************************)
(* Documents                                                               *)
(***************************************************************************)
\* main(), line 545: the default api port, 8081
API_PORT == <<"8", "0", "8", "1">>

\* _get_default_traefik_config
DefaultTraefikConfig ==
    [entryPoints |-> (AdminEntryPoint :> [address |-> <<"0.0.0.0", API_PORT>>]),
     api         |-> [dashboard |-> TRUE, insecure |-> TRUE],
     providers   |-> [file |-> [filename |-> DYNAMIC_FILE]],
     log         |-> [level |-> "DEBUG", format |-> "common"],
     accessLog   |-> EmptyDict]

\* the literal of _create_configs: {"tcp": {"routers": {}, "services": {}}}
DefaultDynamicConfig ==
    [tcp |-> [routers |-> EmptyDict, services |-> EmptyDict]]

\* the entry _update_traefik_config stores for one port
EntryPointEntry(port) == [address |-> <<"0.0.0.0", port>>]

\* variant: the router refers to itself instead of to its service
RouterEntrySelfService(port) ==
    [entryPoints |-> <<EntryPointName(port)>>,
     service     |-> RouterName(port),
     rule        |-> "HostSNI:any"]

\* the router _update_dynamic_config stores for one port
RouterEntry(port) ==
    [entryPoints |-> <<EntryPointName(port)>>,
     service     |-> ServiceName(port),
     rule        |-> "HostSNI:any"]   \* the wildcard rule of line 377

\* the service _update_dynamic_config stores for one port
ServiceEntry(ip_backend, port) ==
    [loadBalancer |->
        [servers |-> <<[address |-> <<ip_backend, port>>]>>]]

RECURSIVE UpdateTraefikConfig(_, _)
\* _update_traefik_config: one upsert per port, in order
UpdateTraefikConfig(config, ports) ==
    IF ports = <<>> THEN config
    ELSE LET c1 == IF "entryPoints" \in DOMAIN config THEN config
                   ELSE DictSet(config, "entryPoints", EmptyDict)
             c2 == DictSet(c1, "entryPoints",
                           DictSet(c1["entryPoints"],
                                   EntryPointName(ports[1]),
                                   EntryPointEntry(ports[1])))
         IN  UpdateTraefikConfig(c2, Tail(ports))

\* config["tcp"]["routers"] and config["tcp"]["services"] can be subscripted
HasTcpMaps(config) ==
    /\ "tcp" \in DOMAIN config
    /\ "routers" \in DOMAIN config["tcp"]
    /\ "services" \in DOMAIN config["tcp"]

\* variant: an existing service gets one more server instead of being replaced
UpsertTunnelAppend(config, ip_backend, port) ==
    LET routers  == DictSet(config["tcp"]["routers"],
                            RouterName(port), RouterEntry(port))
        old      == config["tcp"]["services"]
        servers  == IF ServiceName(port) \in DOMAIN old
                    THEN old[ServiceName(port)].loadBalancer.servers
                    ELSE <<>>
        services == DictSet(old, ServiceName(port),
                        [loadBalancer |->
                            [servers |-> Append(servers,
                                [address |-> <<ip_backend, port>>])]])
    IN  DictSet(config, "tcp",
                DictSet(DictSet(config["tcp"], "routers", routers),
                        "services", services))

\* lines 374-384: the router and the service of one port, replaced if present
UpsertTunnel(config, ip_backend, port) ==
    LET routers  == DictSet(config["tcp"]["routers"],
                            RouterName(port), RouterEntry(port))
        services == DictSet(config["tcp"]["services"],
                            ServiceName(port), ServiceEntry(ip_backend, port))
    IN  DictSet(config, "tcp",
                DictSet(DictSet(config["tcp"], "routers", routers),
                        "services", services))

RECURSIVE UpdateDynamicConfig(_, _, _)
\* _update_dynamic_config: KeyError when "tcp", "routers" or "services" is absent
UpdateDynamicConfig(config, ip_backend, ports) ==
    IF ports = <<>> THEN config
    ELSE IF ~HasTcpMaps(config) THEN Raise("KeyError")
    ELSE UpdateDynamicConfig(UpsertTunnel(config, ip_backend, ports[1]),
                             ip_backend, Tail(ports))

\* variant: the entrypoint is left in place
KeepEntryPoint(config, port) == config

\* delete_tunnel, lines 261-263: the entrypoint of one port
DeleteEntryPoint(config, port) ==
    IF "entryPoints" \in DOMAIN config
       /\ EntryPointName(port) \in DOMAIN config["entryPoints"]
    THEN DictSet(config, "entryPoints",
                 DictDel(config["entryPoints"], EntryPointName(port)))
    ELSE config

\* variant: the router is removed and its service is left behind
DeleteRouterOnly(config, port) ==
    DictSet(config, "tcp",
            DictSet(config["tcp"], "routers",
                    DictDel(config["tcp"]["routers"], RouterName(port))))

\* delete_tunnel, lines 265-271: the router and the service of one port
DeleteRouterService(config, port) ==
    LET routers  == DictDel(config["tcp"]["routers"], RouterName(port))
        services == DictDel(config["tcp"]["services"], ServiceName(port))
    IN  DictSet(config, "tcp",
                DictSet(DictSet(config["tcp"], "routers", routers),
                        "services", services))

RECURSIVE DeletePorts(_, _, _)
\* the loop of delete_tunnel over both in-memory documents
DeletePorts(traefik_config, dynamic_config, ports) ==
    IF ports = <<>>
    THEN [static |-> traefik_config, dynamic |-> dynamic_config]
    ELSE IF ~HasTcpMaps(dynamic_config) THEN Raise("KeyError")
    ELSE DeletePorts(DeleteEntryPoint(traefik_config, ports[1]),
                     DeleteRouterService(dynamic_config, ports[1]),
                     Tail(ports))

(***************************************************************************)
(* Files: yaml.dump, yaml.safe_load, _load_config                          *)
(***************************************************************************)
\* yaml.dump sorts the keys of a mapping
KeyOrder == <<"accessLog", "api", "entryPoints", "log", "providers", "tcp">>

\* the text of an empty mapping, "{}"
FlowEmpty == [flow |-> "{}"]
\* text no YAML parser accepts
Garbage == [junk |-> TRUE]

RECURSIVE DumpFrom(_, _)
DumpFrom(doc, i) ==
    IF i > Len(KeyOrder) THEN <<>>
    ELSE IF KeyOrder[i] \in DOMAIN doc
         THEN <<[key |-> KeyOrder[i], val |-> doc[KeyOrder[i]]]>>
                 \o DumpFrom(doc, i + 1)
         ELSE DumpFrom(doc, i + 1)

\* yaml.dump(config, default_flow_style=False): one block per top-level key
Dump(doc) == IF DOMAIN doc = {} THEN <<FlowEmpty>> ELSE DumpFrom(doc, 1)

\* yaml.safe_load: None for an empty stream, YAMLError for text it cannot parse
SafeLoad(text) ==
    IF \E i \in 1..Len(text) : text[i] = Garbage THEN Raise("YAMLError")
    ELSE IF text = <<>> THEN None
    ELSE IF text = <<FlowEmpty>> THEN EmptyDict
    ELSE [k \in {text[i].key : i \in 1..Len(text)} |->
             text[CHOOSE i \in 1..Len(text) : text[i].key = k].val]

MissingFile == [exists |-> FALSE, text |-> <<>>]
FileOf(text) == [exists |-> TRUE, text |-> text]

\* _load_config: None for a missing file, and None again for any exception
LoadConfig(file) ==
    IF ~file.exists THEN None
    ELSE IF IsExc(SafeLoad(file.text)) THEN None
    ELSE SafeLoad(file.text)

(***************************************************************************)
(* Validation                                                              *)
(***************************************************************************)
\* socket.inet_pton(family, text) succeeds: text is a literal of the family
InetPton(family, text) ==
    \/ family = "AF_INET" /\ text \in {"10.0.0.5"}
    \/ family = "AF_INET6" /\ text \in {"::1"}

\* the ports some socket is bound to: the engine's and other processes'
BoundPorts(service) ==
    (IF service.active THEN service.ports ELSE {}) \cup ForeignBound

\* variant: every bind succeeds
BindAlwaysSucceeds(port_num, service) == TRUE

\* _check_port_available: bind(('0.0.0.0', port)) succeeds
CheckPortAvailable(port_num, service) == port_num \notin BoundPorts(service)

\* the body of the loop of _validate_inputs for one port: None, or the error
ValidatePort(port, service) ==
    LET n == ParseInt(port)
    IN  IF IsExc(n) THEN Raise("ValueError")
        ELSE IF ~(1 <= n.int /\ n.int <= 65535) THEN Raise("ValueError")
        ELSE IF ~CheckPortAvailable(n.int, service) THEN Raise("ValueError")
        ELSE None

\* the text of the ValueError that line 336 wraps, for a port that fails
PortMessage(port, service) ==
    LET n == ParseInt(port)
    IN  IF IsExc(n) THEN "invalid literal for int()"
        ELSE IF ~(1 <= n.int /\ n.int <= 65535) THEN "out of valid range"
        ELSE IF ~CheckPortAvailable(n.int, service) THEN "is already in use"
        ELSE ""

\* variant: only the first port is validated
ValidateFirstPortOnly(ip_version, ip_backend, ports, service) ==
    IF ip_version \notin {"4", "6"}
    THEN [py |-> "ValueError", err |-> "ip_version", at |-> 0, why |-> ""]
    ELSE IF ~InetPton(IF ip_version = "4" THEN "AF_INET" ELSE "AF_INET6",
                      ip_backend)
    THEN [py |-> "ValueError", err |-> "address", at |-> 0, why |-> ""]
    ELSE IF ValidatePort(ports[1], service) # None
    THEN [py |-> "ValueError", err |-> "port", at |-> 1,
          why |-> PortMessage(ports[1], service)]
    ELSE None

\* the first port of the list that the loop of _validate_inputs refuses
FirstRefused(ports, service) ==
    CHOOSE i \in 1..Len(ports) :
        /\ ValidatePort(ports[i], service) # None
        /\ \A j \in 1..(i - 1) : ValidatePort(ports[j], service) = None

\* _validate_inputs: None, or the ValueError raised and where it was raised
ValidateInputs(ip_version, ip_backend, ports, service) ==
    IF ip_version \notin {"4", "6"}
    THEN [py |-> "ValueError", err |-> "ip_version", at |-> 0, why |-> ""]
    ELSE IF ~InetPton(IF ip_version = "4" THEN "AF_INET" ELSE "AF_INET6",
                      ip_backend)
    THEN [py |-> "ValueError", err |-> "address", at |-> 0, why |-> ""]
    ELSE IF \E i \in 1..Len(ports) : ValidatePort(ports[i], service) # None
    THEN [py |-> "ValueError", err |-> "port",
          at |-> FirstRefused(ports, service),
          why |-> PortMessage(ports[FirstRefused(ports, service)], service)]
    ELSE None

\* the ports the engine binds when it starts: one per entrypoint address
EnginePorts(static) ==
    IF static = None \/ "entryPoints" \notin DOMAIN static THEN {}
    ELSE {ParseInt(static["entryPoints"][n].address[2]).int :
             n \in DOMAIN static["entryPoints"]}

(***************************************************************************)
(* State                                                                   *)
(***************************************************************************)
NoOp == [name |-> "none", ip_version |-> "", ip_backend |-> "", ports |-> <<>>]
\* an operation past the point where it last reads its arguments
Running(name) == [name |-> name, ip_version |-> "", ip_backend |-> "", ports |-> <<>>]
NoTrip == [stage |-> "none"]
NoMem == [static |-> None, dynamic |-> None]
NoResult == [op |-> "none", ok |-> TRUE, err |-> "", at |-> 0, why |-> ""]
Returned(name, ok, err, at) ==
    [op |-> name, ok |-> ok, err |-> err, at |-> at, why |-> ""]

ThreadIds == 1..MaxThreads
Unborn == [pc |-> "unborn", caller |-> "", attempt |-> 0]
\* a thread at the head of the while loop of _monitor_tunnels
AtLoop == [pc |-> "loop", caller |-> "", attempt |-> 0]
\* a thread that has left _monitor_tunnels
Dead == [pc |-> "dead", caller |-> "", attempt |-> 0]
NoThreads == [t \in ThreadIds |-> Unborn]
\* the recovery cycle of thread 1: restart requests issued, attempts begun
\* (line 227), exhaustion entries logged; and the seconds thread 1 has slept
\* since stop_monitoring cleared the flag
MonIdle == [restarts |-> 0, cycles |-> 0, logs |-> 0, since |-> 0]

NotRead == [read |-> FALSE]
NothingSeen == NotRead
NoSave == [f \in FileNames |-> MissingFile]

\* TunnelManager.__init__ of a fresh process, over whatever is on disk
InitWith(StartFiles) ==
    /\ files \in StartFiles
    /\ svc = [active |-> FALSE, ports |-> {}]
    /\ pc = "idle"
    /\ op = NoOp
    /\ mem = NoMem
    /\ last = NoResult
    /\ running = FALSE
    /\ monitor_thread = 0
    /\ threads = NoThreads
    /\ mon = MonIdle
    /\ declared = {}
    /\ trip = NoTrip
    /\ prev = NoSave
    /\ seen = NothingSeen

\* both documents missing, or present and empty
CleanFiles ==
    {[f \in FileNames |-> MissingFile], [f \in FileNames |-> FileOf(<<>>)]}

Init == InitWith(CleanFiles)

monitorVars == <<running, monitor_thread, threads, mon>>
readerVars == <<prev, seen>>

\* the operation returns to its caller
Return(name, ok, err, at) ==
    /\ pc' = "returned"
    /\ op' = NoOp
    /\ mem' = NoMem
    /\ last' = Returned(name, ok, err, at)

(***************************************************************************)
(* install_tunnel                                                          *)
(***************************************************************************)
\* install_tunnel up to _create_configs: _validate_inputs decides
BeginInstall(ip_version, ip_backend, ports) ==
    /\ pc = "idle"
    /\ \E t \in ThreadIds : threads[t] = Unborn
    /\ LET v == ValidateInputs(ip_version, ip_backend, ports, svc)
       IN  IF v # None
           THEN /\ pc' = "returned"
                /\ op' = NoOp
                /\ mem' = NoMem
                /\ last' = [Returned("install", FALSE, v.err, v.at)
                               EXCEPT !.why = v.why]
                /\ trip' = NoTrip
                /\ UNCHANGED declared
           ELSE /\ pc' = "create_configs"
                /\ op' = [name |-> "install", ip_version |-> ip_version,
                          ip_backend |-> ip_backend, ports |-> ports]
                /\ trip' = IF PortSet(ports) \cap declared = {}
                           THEN [stage |-> "added", ports |-> PortSet(ports),
                                 pre |-> files]
                           ELSE NoTrip
                /\ declared' = declared \cup PortSet(ports)
                /\ UNCHANGED <<mem, last>>
    /\ UNCHANGED <<files, svc, monitorVars, readerVars>>

\* _create_configs, lines 349-353: load (or default) and update in memory
CreateConfigs ==
    /\ pc = "create_configs"
    /\ LET loadedS == LoadConfig(files[CONFIG_FILE])
           loadedD == LoadConfig(files[DYNAMIC_FILE])
           traefik_config == IF Falsy(loadedS) THEN DefaultTraefikConfig
                             ELSE loadedS
           dynamic_config == IF Falsy(loadedD) THEN DefaultDynamicConfig
                             ELSE loadedD
           newD == UpdateDynamicConfig(dynamic_config, op.ip_backend, op.ports)
       IN  IF IsExc(newD)
           THEN Return("install", FALSE, newD.py, 0)
           ELSE /\ mem' = [static |-> UpdateTraefikConfig(traefik_config, op.ports),
                           dynamic |-> newD]
                /\ pc' = "save_static_open"
                /\ UNCHANGED <<op, last>>
    /\ UNCHANGED <<files, svc, monitorVars, declared, trip, readerVars>>

(***************************************************************************)
(* _save_config                                                            *)
(***************************************************************************)
MemOf(f) == IF f = CONFIG_FILE THEN mem.static ELSE mem.dynamic
OpenPc(f) == IF f = CONFIG_FILE THEN "save_static_open" ELSE "save_dynamic_open"
WritePc(f) == IF f = CONFIG_FILE THEN "save_static_write" ELSE "save_dynamic_write"
\* what follows the save of f in the operation in progress
AfterSave(f) ==
    IF f = CONFIG_FILE THEN "save_dynamic_open"
    ELSE IF op.name = "install" THEN "setup_enable" ELSE "delete_restart"

\* open(filename, 'w'): the file exists and is empty
SaveOpen(f) ==
    /\ pc = OpenPc(f)
    /\ files' = [files EXCEPT ![f] = FileOf(<<>>)]
    /\ prev' = [prev EXCEPT ![f] = files[f]]
    /\ pc' = WritePc(f)
    /\ UNCHANGED <<svc, op, mem, last, monitorVars, declared, trip, seen>>

\* yaml.dump into the open file: the buffer reaches the disk in one or more
\* writes, the last of them when the with block closes the file
SaveWrite(f) ==
    /\ pc = WritePc(f)
    /\ LET text == Dump(MemOf(f))
           done == Len(files[f].text)
       IN  \E k \in 1..(Len(text) - done) :
              /\ files' = [files EXCEPT ![f] = FileOf(SubSeq(text, 1, done + k))]
              /\ IF done + k = Len(text)
                 THEN /\ pc' = AfterSave(f)
                      /\ prev' = [prev EXCEPT ![f] = MissingFile]
                 ELSE UNCHANGED <<pc, prev>>
    /\ UNCHANGED <<svc, op, mem, last, monitorVars, declared, trip, seen>>

(***************************************************************************)
(* The service supervisor (systemctl)                                      *)
(***************************************************************************)
Stopped == [active |-> FALSE, ports |-> {}]
\* the engine (re)started: it reads the static document and binds its entrypoints
Started == [active |-> TRUE,
            ports |-> EnginePorts(LoadConfig(files[CONFIG_FILE]))]
\* systemctl start: no effect on a unit that is already active
AfterStart == IF svc.active THEN svc ELSE Started

(***************************************************************************)
(* _setup_service and start_monitoring                                     *)
(***************************************************************************)
\* lines 199-204: unit file, daemon-reload, enable (check=True); the request's
\* arguments and documents are not read again from here on
SetupEnable(ok) ==
    /\ pc = "setup_enable"
    /\ IF ok THEN /\ pc' = "setup_stop"
                  /\ op' = Running("install")
                  /\ mem' = NoMem
                  /\ UNCHANGED last
             ELSE Return("install", FALSE, "CalledProcessError", 0)
    /\ UNCHANGED <<files, svc, monitorVars, declared, trip, readerVars>>

\* lines 207-211: stop, its failure swallowed by the bare except
SetupStop(ok) ==
    /\ pc = "setup_stop"
    /\ svc' = IF ok THEN Stopped ELSE svc
    /\ pc' = "setup_start"
    /\ UNCHANGED <<files, op, mem, last, monitorVars, declared, trip, readerVars>>

\* lines 214-221: start (check=True), then the status printout
SetupStart(ok) ==
    /\ pc = "setup_start"
    /\ IF ok THEN /\ svc' = AfterStart
                  /\ pc' = "start_monitoring"
                  /\ UNCHANGED <<op, mem, last>>
             ELSE /\ Return("install", FALSE, "CalledProcessError", 0)
                  /\ UNCHANGED svc
    /\ UNCHANGED <<files, monitorVars, declared, trip, readerVars>>

\* start_monitoring: a new daemon thread, whatever threads exist already
StartThread ==
    LET t == CHOOSE t \in ThreadIds :
                 /\ threads[t] = Unborn
                 /\ \A u \in ThreadIds : threads[u] = Unborn => t <= u
    IN  /\ running' = TRUE
        /\ monitor_thread' = t
        /\ threads' = [threads EXCEPT ![t] = AtLoop]

\* install_tunnel, lines 243-245: start_monitoring, return True
InstallStartMonitoring ==
    /\ pc = "start_monitoring"
    /\ StartThread
    /\ Return("install", TRUE, "", 0)
    /\ UNCHANGED <<files, svc, mon, declared, trip, readerVars>>

(***************************************************************************)
(* delete_tunnel, uninstall, and a new process                             *)
(***************************************************************************)
\* delete_tunnel, lines 253-271: load both, give up on a falsy one, else edit
\* (the ports are not read again after the loop, so op does not keep them)
BeginDelete(ports) ==
    /\ pc = "idle"
    /\ declared' = declared \ PortSet(ports)
    /\ trip' = IF trip.stage = "added" /\ trip.ports = PortSet(ports)
               THEN [trip EXCEPT !.stage = "deleted"] ELSE NoTrip
    /\ LET traefik_config == LoadConfig(files[CONFIG_FILE])
           dynamic_config == LoadConfig(files[DYNAMIC_FILE])
       IN  IF Falsy(traefik_config) \/ Falsy(dynamic_config)
           THEN Return("delete", FALSE, "no_config", 0)
           ELSE LET edited == DeletePorts(traefik_config, dynamic_config, ports)
                IN  IF IsExc(edited)
                    THEN Return("delete", FALSE, edited.py, 0)
                    ELSE /\ mem' = edited
                         /\ op' = Running("delete")
                         /\ pc' = "save_static_open"
                         /\ UNCHANGED last
    /\ UNCHANGED <<files, svc, monitorVars, readerVars>>

\* delete_tunnel, lines 276-278: restart (check=True), return True
DeleteRestart(ok) ==
    /\ pc = "delete_restart"
    /\ IF ok THEN /\ svc' = Started
                  /\ Return("delete", TRUE, "", 0)
             ELSE /\ svc' \in {svc, Stopped}
                  /\ Return("delete", FALSE, "CalledProcessError", 0)
    /\ UNCHANGED <<files, monitorVars, declared, trip, readerVars>>

\* uninstall: stop and disable (check=True), then remove both documents
Uninstall(ok) ==
    /\ pc = "idle"
    /\ IF ok THEN /\ svc' = Stopped
                  /\ files' = [f \in FileNames |-> MissingFile]
                  /\ declared' = {}
                  /\ trip' = NoTrip
                  /\ Return("uninstall", TRUE, "", 0)
             ELSE /\ Return("uninstall", FALSE, "CalledProcessError", 0)
                  /\ UNCHANGED <<svc, files, declared, trip>>
    /\ UNCHANGED <<monitorVars, readerVars>>

\* main(), lines 551-579: the caller drops the returned value
Done ==
    /\ pc = "returned"
    /\ pc' = "idle"
    /\ last' = NoResult
    /\ trip' = IF trip.stage = "deleted" THEN NoTrip ELSE trip
    /\ UNCHANGED <<files, svc, op, mem, monitorVars, declared, readerVars>>

\* main(): each command line is a new process with a new TunnelManager; the
\* daemon threads of the previous one ended with it
NewProcess ==
    /\ pc = "idle"
    /\ running' = FALSE
    /\ monitor_thread' = 0
    /\ threads' = NoThreads
    /\ mon' = MonIdle
    /\ UNCHANGED <<files, svc, pc, op, mem, last, declared, trip, readerVars>>

(***************************************************************************)
(* The main thread's operations on the documents                           *)
(***************************************************************************)
Outcomes == BOOLEAN

MainNext(Versions, Hosts, Lists) ==
    \/ \E v \in Versions, h \in Hosts, ports \in Lists : BeginInstall(v, h, ports)
    \/ CreateConfigs
    \/ \E f \in FileNames : SaveOpen(f)
    \/ \E f \in FileNames : SaveWrite(f)
    \/ \E ok \in Outcomes : SetupEnable(ok)
    \/ \E ok \in Outcomes : SetupStop(ok)
    \/ \E ok \in Outcomes : SetupStart(ok)
    \/ InstallStartMonitoring
    \/ \E ports \in Lists : BeginDelete(ports)
    \/ \E ok \in Outcomes : DeleteRestart(ok)
    \/ \E ok \in Outcomes : Uninstall(ok)
    \/ Done
    \/ NewProcess

Next == MainNext(IpVersions, Backends, PortLists)

Spec == Init /\ [][Next]_vars

(***************************************************************************)
(* The monitor: start_monitoring, stop_monitoring, _monitor_tunnels,       *)
(* _check_service_health, _attempt_recovery                                *)
(***************************************************************************)
docVars == <<files, op, mem, last, declared, trip, prev, seen>>

\* start_monitoring called by main()'s monitor command or by install_tunnel
StartMonitoring ==
    /\ pc = "idle"
    /\ \E t \in ThreadIds : threads[t] = Unborn
    /\ StartThread
    /\ mon' = [mon EXCEPT !.since = 0]
    /\ UNCHANGED <<svc, pc, docVars>>

\* stop_monitoring, lines 96-98: clear the flag, then join monitor_thread if any
StopMonitoring ==
    /\ pc = "idle"
    /\ running' = FALSE
    /\ pc' = IF monitor_thread # 0 THEN "joining" ELSE "idle"
    /\ UNCHANGED <<svc, monitor_thread, threads, mon, docVars>>

\* monitor_thread.join() returns once that thread has ended; line 99
StopJoined ==
    /\ pc = "joining"
    /\ threads[monitor_thread] = Dead
    /\ pc' = "idle"
    /\ UNCHANGED <<svc, monitorVars, docVars>>

At(t, where) == threads[t].pc = where
Goto(t, where) == threads' = [threads EXCEPT ![t].pc = where]
\* a sleep of thread 1 begun after the flag was cleared, counted up to the
\* first value beyond KEEPALIVE_INTERVAL
Slept(seconds) ==
    IF running \/ mon.since > KEEPALIVE_INTERVAL THEN mon.since
    ELSE mon.since + seconds

\* one more restart request in the recovery cycle of thread 1, an attempt
\* begun if it is the request of line 227, and the sleep that follows it
CountRestart(t, cycle, seconds) ==
    IF t # 1 THEN UNCHANGED mon
    ELSE IF threads[t].caller = "recovery"
    THEN mon' = [mon EXCEPT !.restarts = @ + 1, !.cycles = @ + cycle,
                            !.since = Slept(seconds)]
    ELSE mon' = [mon EXCEPT !.since = Slept(seconds)]

\* line 102: while self.running
MonitorLoop(t) ==
    /\ At(t, "loop")
    /\ threads' = [threads EXCEPT ![t] =
                      IF running THEN [pc |-> "is_active", caller |-> "poll",
                                       attempt |-> 0]
                      ELSE Dead]
    /\ UNCHANGED <<svc, pc, running, monitor_thread, mon, docVars>>

\* lines 116-119: systemctl is-active
ProbeIsActive(t) ==
    /\ At(t, "is_active")
    /\ Goto(t, IF svc.active THEN "api" ELSE "probe_restart")
    /\ UNCHANGED <<svc, pc, running, monitor_thread, mon, docVars>>

\* lines 120-127: the service is not active: journal, restart (its result is
\* not looked at), sleep(10); is-active is not asked again
ProbeRestart(t, ok) ==
    /\ At(t, "probe_restart")
    /\ IF ok THEN svc' = Started ELSE svc' \in {svc, Stopped}
    /\ CountRestart(t, 0, SETTLE_DELAY)
    /\ Goto(t, "api_unchecked")
    /\ UNCHANGED <<pc, running, monitor_thread, docVars>>

\* lines 130-153: the three API urls, answered by whatever listens on the API
\* port.  On success the probe returns to its caller; on failure it raises,
\* into line 106 (a new recovery cycle) or into line 232
ProbeApi(t, connected) ==
    /\ At(t, "api") \/ At(t, "api_unchecked")
    /\ threads' = [threads EXCEPT ![t] =
          IF connected
          THEN IF @.caller = "poll"
               THEN [pc |-> "sleep", caller |-> "", attempt |-> 0]
               ELSE [@ EXCEPT !.pc = "rec_recovered"]
          ELSE IF @.caller = "poll"
               THEN [pc |-> "rec_restart", caller |-> "recovery", attempt |-> 0]
               ELSE [@ EXCEPT !.pc = "rec_except"]]
    /\ IF t = 1 /\ threads[t].caller = "poll"
       THEN mon' = [MonIdle EXCEPT !.since = mon.since]
       ELSE UNCHANGED mon
    /\ UNCHANGED <<svc, pc, running, monitor_thread, docVars>>

\* line 105: time.sleep(KEEPALIVE_INTERVAL)
MonitorSleep(t) ==
    /\ At(t, "sleep")
    /\ threads' = [threads EXCEPT ![t] = AtLoop]
    /\ UNCHANGED <<svc, pc, running, monitor_thread, mon, docVars>>

\* lines 226-229: restart (check=True), sleep(RETRY_DELAY), then the probe
RecoveryRestart(t, ok) ==
    /\ At(t, "rec_restart")
    /\ IF ok THEN svc' = Started ELSE svc' \in {svc, Stopped}
    /\ CountRestart(t, 1, IF ok THEN RETRY_DELAY ELSE 0)
    /\ Goto(t, IF ok THEN "is_active" ELSE "rec_except")
    /\ UNCHANGED <<pc, running, monitor_thread, docVars>>

\* variant: every failed attempt logs the exhaustion
RecoveryExceptAlwaysLogs(t) ==
    /\ At(t, "rec_except")
    /\ IF threads[t].attempt = RETRY_ATTEMPTS - 1
       THEN Goto(t, "rec_exhausted")
       ELSE threads' = [threads EXCEPT ![t] =
                           [@ EXCEPT !.pc = "rec_restart", !.attempt = @ + 1]]
    /\ IF t = 1 THEN mon' = [mon EXCEPT !.logs = @ + 1] ELSE UNCHANGED mon
    /\ UNCHANGED <<svc, pc, running, monitor_thread, docVars>>

\* lines 232-234: the except clause; the last attempt logs the exhaustion
RecoveryExcept(t) ==
    /\ At(t, "rec_except")
    /\ IF threads[t].attempt = RETRY_ATTEMPTS - 1
       THEN /\ Goto(t, "rec_exhausted")
            /\ IF t = 1 THEN mon' = [mon EXCEPT !.logs = @ + 1]
                        ELSE UNCHANGED mon
       ELSE /\ threads' = [threads EXCEPT ![t] =
                              [@ EXCEPT !.pc = "rec_restart", !.attempt = @ + 1]]
            /\ UNCHANGED mon
    /\ UNCHANGED <<svc, pc, running, monitor_thread, docVars>>

\* the for loop is over: _attempt_recovery returns to the while loop; the
\* exhaustion entry stays on record until the next probe has been made
RecoveryExhausted(t) ==
    /\ At(t, "rec_exhausted")
    /\ threads' = [threads EXCEPT ![t] = AtLoop]
    /\ IF t = 1 THEN mon' = [MonIdle EXCEPT !.logs = mon.logs, !.since = mon.since]
                ELSE UNCHANGED mon
    /\ UNCHANGED <<svc, pc, running, monitor_thread, docVars>>

\* lines 230-231: "Service recovered successfully", return to the while loop
RecoveryRecovered(t) ==
    /\ At(t, "rec_recovered")
    /\ threads' = [threads EXCEPT ![t] = AtLoop]
    /\ IF t = 1 THEN mon' = [MonIdle EXCEPT !.since = mon.since]
                ELSE UNCHANGED mon
    /\ UNCHANGED <<svc, pc, running, monitor_thread, docVars>>

\* the engine process dies
ServiceCrash ==
    /\ svc.active
    /\ svc' = Stopped
    /\ UNCHANGED <<pc, monitorVars, docVars>>

\* the unit's Restart=always, RestartSec=5 (lines 191-192)
ServiceRespawn ==
    /\ ~svc.active
    /\ svc' = Started
    /\ UNCHANGED <<pc, monitorVars, docVars>>

MonitorNext ==
    \/ StartMonitoring
    \/ StopMonitoring
    \/ StopJoined
    \/ \E t \in ThreadIds : MonitorLoop(t)
    \/ \E t \in ThreadIds : ProbeIsActive(t)
    \/ \E t \in ThreadIds, ok \in Outcomes : ProbeRestart(t, ok)
    \/ \E t \in ThreadIds, connected \in BOOLEAN : ProbeApi(t, connected)
    \/ \E t \in ThreadIds : MonitorSleep(t)
    \/ \E t \in ThreadIds, ok \in Outcomes : RecoveryRestart(t, ok)
    \/ \E t \in ThreadIds : RecoveryExcept(t)
    \/ \E t \in ThreadIds : RecoveryExhausted(t)
    \/ \E t \in ThreadIds : RecoveryRecovered(t)
    \/ ServiceCrash
    \/ ServiceRespawn

SpecMonitor == Init /\ [][MonitorNext]_vars

(***************************************************************************)
(* get_status, _get_tunnels_from_config, _get_api_status                   *)
(***************************************************************************)
MaxRouters == 2

\* what /api/tcp/routers lists: routers of tunnel services and one of another kind
LiveRouters ==
    [service : {ServiceName(<<"8", "0">>), ServiceName(<<"8", "1">>), <<"api">>},
     status  : {"enabled", "disabled"}]

\* the answers of the API: no HTTP 200 from any url, or the list of routers
ApiAnswers ==
    {[reached |-> FALSE, routers |-> <<>>]}
        \cup {[reached |-> TRUE, routers |-> rs] : rs \in SeqsUpTo(LiveRouters, MaxRouters)}

\* dict.items(): the keys in the order of the mapping
RECURSIVE ItemsOf(_)
ItemsOf(keys) ==
    IF keys = {} THEN <<>>
    ELSE LET k == CHOOSE x \in keys : TRUE
         IN  <<k>> \o ItemsOf(keys \ {k})

\* "tcp" in router.get("service", "")
MentionsTcp(name) == \E i \in 1..Len(name) : name[i] = "tcp"
\* router["service"].split("_")[-1]
LastField(name) == name[Len(name)]

\* lines 505-514: one entry per router whose service mentions tcp
RECURSIVE ActiveTunnels(_)
ActiveTunnels(routers) ==
    IF routers = <<>> THEN <<>>
    ELSE LET router == Head(routers)
         IN  (IF MentionsTcp(router.service)
              THEN <<[port    |-> LastField(router.service),
                      status  |-> IF router.status = "enabled" THEN "active"
                                  ELSE "inactive",
                      rule    |-> "HostSNI:any",
                      service |-> router.service]>>
              ELSE <<>>) \o ActiveTunnels(Tail(routers))

\* _get_api_status
GetApiStatus(api) ==
    IF api.reached THEN [active_tunnels |-> ActiveTunnels(api.routers)]
    ELSE [active_tunnels |-> <<>>]

\* lines 479-482: the backend of a tunnel
BackendOf(tcp_services, service_name) ==
    IF service_name \in DOMAIN tcp_services
    THEN LET servers == tcp_services[service_name].loadBalancer.servers
         IN  IF servers # <<>> THEN servers[1].address ELSE "unknown"
    ELSE "unknown"

\* lines 467-484: the tunnels of the entrypoints named port_<P>, in order
RECURSIVE TunnelsOf(_, _, _)
TunnelsOf(names, entrypoints, tcp_services) ==
    IF names = <<>> THEN <<>>
    ELSE LET entry_name == Head(names)
         IN  (IF Len(entry_name) = 2 /\ entry_name[1] = "port"
              THEN <<[port          |-> entry_name[2],
                      local_address |-> entrypoints[entry_name].address,
                      backend       |-> BackendOf(tcp_services,
                                                  ServiceName(entry_name[2])),
                      status        |-> "unknown"]>>
              ELSE <<>>) \o TunnelsOf(Tail(names), entrypoints, tcp_services)

\* _get_tunnels_from_config
GetTunnelsFromConfig(static, dynamic) ==
    LET traefik_config == IF Falsy(static) THEN EmptyDict ELSE static
        dynamic_config == IF Falsy(dynamic) THEN EmptyDict ELSE dynamic
        entrypoints == DictGet(traefik_config, "entryPoints", EmptyDict)
        tcp_services == DictGet(DictGet(dynamic_config, "tcp", EmptyDict),
                                "services", EmptyDict)
    IN  TunnelsOf(ItemsOf(DOMAIN entrypoints), entrypoints, tcp_services)

\* lines 429-433: next(t for t in active_tunnels if t["port"] == tunnel["port"])
MatchOf(active_tunnels, port) ==
    IF \E i \in 1..Len(active_tunnels) : active_tunnels[i].port = port
    THEN active_tunnels[CHOOSE i \in 1..Len(active_tunnels) :
            /\ active_tunnels[i].port = port
            /\ \A j \in 1..(i - 1) : active_tunnels[j].port # port]
    ELSE None

\* variant: a tunnel without a live router is left out
MergeMatchedOnly(tunnel, active_tunnels) ==
    LET api_tunnel == MatchOf(active_tunnels, tunnel.port)
    IN  IF api_tunnel # None
        THEN <<[port |-> api_tunnel.port, local_address |-> tunnel.local_address,
                backend |-> tunnel.backend, status |-> api_tunnel.status,
                rule |-> api_tunnel.rule, service |-> api_tunnel.service]>>
        ELSE <<>>

\* lines 434-437: tunnel.update(api_tunnel), or the status of an unmatched tunnel
Merge(tunnel, active_tunnels) ==
    LET api_tunnel == MatchOf(active_tunnels, tunnel.port)
    IN  IF api_tunnel # None
        THEN <<[port |-> api_tunnel.port, local_address |-> tunnel.local_address,
                backend |-> tunnel.backend, status |-> api_tunnel.status,
                rule |-> api_tunnel.rule, service |-> api_tunnel.service]>>
        ELSE <<[tunnel EXCEPT !.status = "configured but not active"]>>

RECURSIVE MergeAll(_, _)
MergeAll(tunnels, active_tunnels) ==
    IF tunnels = <<>> THEN <<>>
    ELSE Merge(Head(tunnels), active_tunnels)
            \o MergeAll(Tail(tunnels), active_tunnels)

\* get_status
GetStatusOf(service, static, dynamic, api) ==
    IF ~service.active
    THEN [status |-> "error", active_tunnels |-> <<>>]
    ELSE [status |-> "ok",
          active_tunnels |->
              MergeAll(GetTunnelsFromConfig(static, dynamic),
                       GetApiStatus(api).active_tunnels)]

\* main()'s status command: get_status returns what is then printed
GetStatus(api) ==
    /\ pc = "idle"
    /\ pc' = "status"
    /\ seen' = [read |-> TRUE,
                active |-> svc.active,
                static |-> LoadConfig(files[CONFIG_FILE]),
                api |-> api,
                result |-> GetStatusOf(svc, LoadConfig(files[CONFIG_FILE]),
                                       LoadConfig(files[DYNAMIC_FILE]), api)]
    /\ UNCHANGED <<files, svc, op, mem, last, monitorVars, declared, trip, prev>>

\* the status has been printed and the command has ended
StatusPrinted ==
    /\ pc = "status"
    /\ pc' = "idle"
    /\ seen' = NotRead
    /\ UNCHANGED <<files, svc, op, mem, last, monitorVars, declared, trip, prev>>

\* the requests made before a status is asked for
StatusLists == SeqsUpTo({<<"8", "0">>, <<"8", "1">>}, 1)

NextStatus ==
    \/ MainNext({"4"}, {"10.0.0.5"}, StatusLists)
    \/ \E api \in ApiAnswers : GetStatus(api)
    \/ StatusPrinted

SpecStatus == Init /\ [][NextStatus]_vars

\* the steps of thread t that end by themselves: tests, sleeps, prints, and
\* the API request, which has timeout=5
BoundedStep(t) ==
    \/ MonitorLoop(t)
    \/ MonitorSleep(t)
    \/ \E connected \in BOOLEAN : ProbeApi(t, connected)
    \/ RecoveryExcept(t)
    \/ RecoveryExhausted(t)
    \/ RecoveryRecovered(t)

\* the monitor with its scheduling: every thread runs, and join returns when
\* its thread has ended.  The subprocess.run calls (lines 116, 121, 126 and
\* 227) have no timeout: they return when systemctl or journalctl answers
SpecMonitorFair ==
    /\ Init
    /\ [][MonitorNext]_vars
    /\ \A t \in ThreadIds : WF_vars(BoundedStep(t))
    /\ WF_vars(StopJoined)

(***************************************************************************)
(* Saves that fail                                                         *)
(***************************************************************************)
\* _save_config, lines 398-403: makedirs or open raises and the file is as it
\* was, or yaml.dump raises and the file keeps what was written so far; the
\* exception ends install_tunnel (line 246) or delete_tunnel (line 280)
SaveFails(f) ==
    /\ pc \in {OpenPc(f), WritePc(f)}
    /\ Return(op.name, FALSE, "SaveError", 0)
    /\ prev' = [prev EXCEPT ![f] = MissingFile]
    /\ UNCHANGED <<files, svc, monitorVars, declared, trip, seen>>

\* the requests made while saves may fail
SaveFailLists == SeqsUpTo({<<"8", "0">>, <<"8", "1">>}, 1)

NextSaveFail ==
    \/ MainNext({"4"}, {"10.0.0.5"}, SaveFailLists)
    \/ \E f \in FileNames : SaveFails(f)

SpecSaveFail == Init /\ [][NextSaveFail]_vars

(***************************************************************************)
(* Documents that parse and lack a top-level key                           *)
(***************************************************************************)
\* static documents: the default one, and one without entryPoints
PartialStatic ==
    {DefaultTraefikConfig,
     [k \in DOMAIN DefaultTraefikConfig \ {"entryPoints"} |->
         DefaultTraefikConfig[k]]}

\* dynamic documents: the default one, and ones without tcp, tcp.routers or
\* tcp.services
PartialDynamic ==
    {DefaultDynamicConfig,
     [log |-> [level |-> "DEBUG"]],
     [tcp |-> [services |-> EmptyDict]],
     [tcp |-> [routers |-> EmptyDict]]}

LacksKey(static, dynamic) ==
    "entryPoints" \notin DOMAIN static \/ ~HasTcpMaps(dynamic)

PartialFiles ==
    {[f \in FileNames |-> FileOf(Dump(IF f = CONFIG_FILE THEN st ELSE dy))] :
        <<st, dy>> \in {x \in PartialStatic \X PartialDynamic :
                            LacksKey(x[1], x[2])}}

InitPartial == InitWith(PartialFiles)

SpecPartial == InitPartial /\ [][Next]_vars

(***************************************************************************)
(* Documents that exist and cannot be parsed                               *)
(***************************************************************************)
IsCorrupt(file) == file.exists /\ IsExc(SafeLoad(file.text))

\* at least one document is present and unparseable, the other missing or so
CorruptFiles ==
    {fs \in [FileNames -> {MissingFile, FileOf(<<Garbage>>)}] :
        \E f \in FileNames : IsCorrupt(fs[f])}

InitCorrupt == InitWith(CorruptFiles)

SpecCorrupt == InitCorrupt /\ [][Next]_vars

(***************************************************************************)
(* A concurrent reader of the documents (the engine re-reading its         *)
(* configuration, or _get_tunnels_from_config in another process)          *)
(***************************************************************************)
Saving(f) == pc = WritePc(f)
\* the content the save in progress replaces, and the content it writes
OldOf(f) == IF Saving(f) THEN prev[f] ELSE files[f]
NewOf(f) == IF Saving(f) THEN FileOf(Dump(MemOf(f))) ELSE files[f]

\* lines 458-459 at one instant: both documents as they are on disk now
ReaderLoad ==
    /\ ~seen.read
    /\ seen' = [read |-> TRUE,
                during |-> op.name,
                static |-> LoadConfig(files[CONFIG_FILE]),
                dynamic |-> LoadConfig(files[DYNAMIC_FILE]),
                old |-> [f \in FileNames |-> LoadConfig(OldOf(f))],
                new |-> [f \in FileNames |-> LoadConfig(NewOf(f))]]
    /\ UNCHANGED <<files, svc, pc, op, mem, last, monitorVars, declared, trip, prev>>

\* the reader is done with what it loaded
ReaderForget ==
    /\ seen.read
    /\ seen' = NotRead
    /\ UNCHANGED <<files, svc, pc, op, mem, last, monitorVars, declared, trip, prev>>

\* the requests made while a reader is observed
ReaderLists == SeqsUpTo({<<"8", "0">>, <<"8", "1">>}, 1)

NextReader ==
    \/ MainNext({"4"}, {"10.0.0.5"}, ReaderLists)
    \/ ReaderLoad
    \/ ReaderForget

SpecReader == Init /\ [][NextReader]_vars

(***************************************************************************)
(* What the documents on disk hold                                         *)
(***************************************************************************)
Static == LoadConfig(files[CONFIG_FILE])
Dynamic == LoadConfig(files[DYNAMIC_FILE])

EntryPointsOf(doc) ==
    IF doc = None \/ "entryPoints" \notin DOMAIN doc THEN EmptyDict
    ELSE doc["entryPoints"]
RoutersOf(doc) ==
    IF doc = None \/ "tcp" \notin DOMAIN doc
       \/ "routers" \notin DOMAIN doc["tcp"] THEN EmptyDict
    ELSE doc["tcp"]["routers"]
ServicesOf(doc) ==
    IF doc = None \/ "tcp" \notin DOMAIN doc
       \/ "services" \notin DOMAIN doc["tcp"] THEN EmptyDict
    ELSE doc["tcp"]["services"]

\* no operation is between its first and its last write
Settled == pc \in {"idle", "returned"}
\* _create_configs has just returned: both documents of an add are saved
AddSaved == pc = "setup_enable"

(***************************************************************************)
(* C1  No-orphan.  After each operation of any sequence of adds and        *)
(* deletes that starts from empty or missing documents, the port_<P>       *)
(* entrypoints, the tcp_router_<P> routers and the tcp_service_<P>         *)
(* services on disk are exactly the derived names of the declared ports;   *)
(* the only other entrypoint is "traefik".                                 *)
(***************************************************************************)
C1_NoOrphan ==
    Settled =>
        /\ DOMAIN EntryPointsOf(Static) \ {AdminEntryPoint}
              = {EntryPointName(p) : p \in declared}
        /\ DOMAIN RoutersOf(Dynamic) = {RouterName(p) : p \in declared}
        /\ DOMAIN ServicesOf(Dynamic) = {ServiceName(p) : p \in declared}

\* a delete has returned success and left another tunnel declared
C1_Witness ==
    /\ pc = "returned" /\ last.op = "delete" /\ last.ok
    /\ declared # {}
    /\ DOMAIN RoutersOf(Dynamic) # {}

(***************************************************************************)
(* C2  Referential completeness of an add, as the code has it.  Once an    *)
(* add of ports to backend host H is saved, each port P of it has the      *)
(* entrypoint port_P with address "0.0.0.0:P", the router tcp_router_P     *)
(* with entryPoints exactly [port_P] and service tcp_service_P, and the    *)
(* service tcp_service_P with exactly one server, "H:P": the backend port  *)
(* is always the frontend port.                                            *)
(***************************************************************************)
C2_AddComplete ==
    AddSaved =>
        \A p \in PortSet(op.ports) :
            /\ EntryPointName(p) \in DOMAIN EntryPointsOf(Static)
            /\ EntryPointsOf(Static)[EntryPointName(p)].address = <<"0.0.0.0", p>>
            /\ RouterName(p) \in DOMAIN RoutersOf(Dynamic)
            /\ RoutersOf(Dynamic)[RouterName(p)].entryPoints = <<EntryPointName(p)>>
            /\ RoutersOf(Dynamic)[RouterName(p)].service = ServiceName(p)
            /\ ServiceName(p) \in DOMAIN ServicesOf(Dynamic)
            /\ ServicesOf(Dynamic)[ServiceName(p)].loadBalancer.servers
                  = <<[address |-> <<op.ip_backend, p>>]>>

\* an add of two different ports is saved
C2_Witness ==
    /\ AddSaved
    /\ Len(op.ports) = 2 /\ op.ports[1] # op.ports[2]

\* the backend ports a tunnel may name: the port texts in 1..65535
BackendPortTexts ==
    {b \in PortTexts : ~IsExc(ParseInt(b))
                       /\ 1 <= ParseInt(b).int /\ ParseInt(b).int <= 65535}

\* C2 as the claim words it: the entrypoint address is ":P" and the one server
\* is "H:B" for whichever backend port B the tunnel names
C2_AsClaimed ==
    AddSaved =>
        \A p \in PortSet(op.ports), b \in BackendPortTexts :
            /\ EntryPointName(p) \in DOMAIN EntryPointsOf(Static)
            /\ EntryPointsOf(Static)[EntryPointName(p)].address = <<"", p>>
            /\ RouterName(p) \in DOMAIN RoutersOf(Dynamic)
            /\ RoutersOf(Dynamic)[RouterName(p)].entryPoints = <<EntryPointName(p)>>
            /\ RoutersOf(Dynamic)[RouterName(p)].service = ServiceName(p)
            /\ ServiceName(p) \in DOMAIN ServicesOf(Dynamic)
            /\ ServicesOf(Dynamic)[ServiceName(p)].loadBalancer.servers
                  = <<[address |-> <<op.ip_backend, b>>]>>

(***************************************************************************)
(* C3  Idempotence of add.  Applying the add transformation again, with    *)
(* the same tunnel, to the documents an add has produced gives the same    *)
(* two documents.                                                          *)
(***************************************************************************)
\* the in-memory documents of an add, after lines 352-353
AddApplied == op.name = "install" /\ pc = "save_static_open"

C3_AddIdempotent ==
    AddApplied =>
        /\ UpdateTraefikConfig(mem.static, op.ports) = mem.static
        /\ UpdateDynamicConfig(mem.dynamic, op.ip_backend, op.ports) = mem.dynamic

\* the add was applied to documents that already held a tunnel on the port,
\* to another backend
C3_Witness ==
    /\ AddApplied
    /\ \E p \in PortSet(op.ports) :
          /\ ServiceName(p) \in DOMAIN ServicesOf(Dynamic)
          /\ ServicesOf(Dynamic)[ServiceName(p)].loadBalancer.servers
                # <<[address |-> <<op.ip_backend, p>>]>>

(***************************************************************************)
(* C4  Add/delete round trip.  When an add of undeclared ports is followed *)
(* by the delete of the same ports, each document ends as it was before    *)
(* the add (a document that was missing or empty ends as the defaults),    *)
(* and no entry of those ports remains.                                    *)
(***************************************************************************)
\* what a round trip leaves of a file that was `before`
RoundTripOf(f, before) ==
    IF Falsy(LoadConfig(before))
    THEN LoadConfig(files[f]) = (IF f = CONFIG_FILE THEN DefaultTraefikConfig
                                 ELSE DefaultDynamicConfig)
    ELSE files[f] = before

C4_RoundTrip ==
    (pc = "returned" /\ trip.stage = "deleted") =>
        /\ \A f \in FileNames : RoundTripOf(f, trip.pre[f])
        /\ \A p \in trip.ports :
              /\ EntryPointName(p) \notin DOMAIN EntryPointsOf(Static)
              /\ RouterName(p) \notin DOMAIN RoutersOf(Dynamic)
              /\ ServiceName(p) \notin DOMAIN ServicesOf(Dynamic)

\* a round trip over documents that held another tunnel has completed
C4_Witness ==
    /\ pc = "returned" /\ trip.stage = "deleted" /\ last.ok
    /\ DOMAIN RoutersOf(LoadConfig(trip.pre[DYNAMIC_FILE])) # {}

(***************************************************************************)
(* C9  Validation before mutation.  An install request is admitted to      *)
(* _create_configs only if its IP version, its backend address and every   *)
(* one of its ports are valid; a request that is not admitted returns      *)
(* failure at once with both documents, the service and the monitor        *)
(* untouched.                                                              *)
(***************************************************************************)
\* lines 320-334, restated: what a valid request is
ValidPort(port, service) ==
    /\ port # <<>>
    /\ \A i \in 1..Len(port) : IsDigit(port[i])
    /\ IntAcc(port, 0) \in 1..65535
    /\ IntAcc(port, 0) \notin BoundPorts(service)

ValidRequest(request, service) ==
    /\ \/ request.ip_version = "4" /\ InetPton("AF_INET", request.ip_backend)
       \/ request.ip_version = "6" /\ InetPton("AF_INET6", request.ip_backend)
    /\ \A i \in 1..Len(request.ports) : ValidPort(request.ports[i], service)

C9_ValidationFirst ==
    [][ /\ (pc = "idle" /\ op'.name = "install") => ValidRequest(op', svc)
        /\ (pc = "idle" /\ pc' = "returned" /\ last'.op = "install") =>
              /\ ~last'.ok
              /\ UNCHANGED <<files, svc, running, monitor_thread, threads>> ]_vars

\* an install was refused for its second port, the first having passed
C9_Witness ==
    /\ pc = "returned" /\ last.op = "install" /\ ~last.ok
    /\ last.err = "port" /\ last.at = 2

(***************************************************************************)
(* C10  Update path.  Re-adding a port that a declared tunnel owns, and    *)
(* that the running engine therefore has bound, passes validation whatever *)
(* valid backend it names.                                                 *)
(***************************************************************************)
OwnedAndBound(p) ==
    /\ p \in declared
    /\ EntryPointName(p) \in DOMAIN EntryPointsOf(Static)
    /\ svc.active
    /\ ~IsExc(ParseInt(p)) /\ ParseInt(p).int \in svc.ports

C10_UpdatePasses ==
    pc = "idle" =>
        \A p \in PortTexts :
            OwnedAndBound(p) =>
                /\ ValidateInputs("4", "10.0.0.5", <<p>>, svc) = None
                /\ ValidateInputs("6", "::1", <<p>>, svc) = None

(***************************************************************************)
(* C6  Per-file atomic persistence.  Whatever a reader loads of a document *)
(* is the complete content the save in progress replaces or the complete   *)
(* content it writes.                                                      *)
(***************************************************************************)
C6_OldOrNew ==
    seen.read =>
        /\ seen.static \in {seen.old[CONFIG_FILE], seen.new[CONFIG_FILE]}
        /\ seen.dynamic \in {seen.old[DYNAMIC_FILE], seen.new[DYNAMIC_FILE]}

(***************************************************************************)
(* C7  Atomic delete across documents.  A reader that loads both documents *)
(* at a point of delete_tunnel sees, for every port, all three of port_P,  *)
(* tcp_router_P and tcp_service_P or none of them.                         *)
(***************************************************************************)
C7_AllOrNone ==
    (seen.read /\ seen.during = "delete") =>
        \A p \in PortTexts :
            /\ (EntryPointName(p) \in DOMAIN EntryPointsOf(seen.static))
                  = (RouterName(p) \in DOMAIN RoutersOf(seen.dynamic))
            /\ (RouterName(p) \in DOMAIN RoutersOf(seen.dynamic))
                  = (ServiceName(p) \in DOMAIN ServicesOf(seen.dynamic))

(***************************************************************************)
(* C8  A corrupt document is never overwritten.  While a document exists   *)
(* and cannot be parsed, no step of an add or a delete changes it, and the *)
(* add or delete that loads it returns failure there and then.             *)
(***************************************************************************)
C8_CorruptKept ==
    [][ \A f \in FileNames :
          IsCorrupt(files[f]) =>
            /\ pc \notin {"idle", "returned"} => files'[f] = files[f]
            /\ (pc = "create_configs" \/ (pc = "idle" /\ last'.op = "delete")) =>
                  /\ pc' = "returned"
                  /\ ~last'.ok ]_vars

(***************************************************************************)
(* C11  Port conflict rejection.  A request whose port is a number in      *)
(* range, is owned by no declared tunnel and is bound by some socket is    *)
(* refused by _validate_inputs with the port-in-use error for that port,   *)
(* the ports before it having passed.                                      *)
(***************************************************************************)
InUseUnowned(port) ==
    /\ ~IsExc(ParseInt(port))
    /\ ParseInt(port).int \in 1..65535
    /\ port \notin declared
    /\ ParseInt(port).int \in BoundPorts(svc)

PortInUseAt(i) ==
    [py |-> "ValueError", err |-> "port", at |-> i, why |-> "is already in use"]

C11_PortInUse ==
    pc = "idle" =>
        \A ports \in PortLists : \A i \in 1..Len(ports) :
            (/\ InUseUnowned(ports[i])
             /\ \A j \in 1..(i - 1) : ValidatePort(ports[j], svc) = None) =>
                /\ ValidateInputs("4", "10.0.0.5", ports, svc) = PortInUseAt(i)
                /\ ValidateInputs("6", "::1", ports, svc) = PortInUseAt(i)

\* an install was refused for a port that only a foreign socket holds
C11_Witness ==
    /\ pc = "returned" /\ last.op = "install" /\ ~last.ok
    /\ last.why = "is already in use"
    /\ ~svc.active
    /\ declared # {}

(***************************************************************************)
(* C5  Bounded recovery.  A recovery cycle that reaches exhaustion has     *)
(* issued exactly RETRY_ATTEMPTS restart requests, counting every restart  *)
(* between the failed polling probe and the exhaustion, and has logged     *)
(* exactly one exhaustion entry.                                           *)
(***************************************************************************)
C5_ExactlyRetryAttempts ==
    threads[1].pc = "rec_exhausted" =>
        /\ mon.restarts = RETRY_ATTEMPTS
        /\ mon.logs = 1

(***************************************************************************)
(* C12  Graceful stop.  Once stop_monitoring has returned and until the    *)
(* next start_monitoring, every monitor thread that was ever started has   *)
(* ended, so none of them probes or restarts the service.                  *)
(***************************************************************************)
StopReturned == pc = "idle" /\ ~running

C12_GracefulStop ==
    StopReturned => \A t \in ThreadIds : threads[t] \in {Unborn, Dead}

(***************************************************************************)
(* C13  Status left join.  With the service active, get_status returns one *)
(* entry per port_<P> entrypoint of the static document and no other; an   *)
(* entry whose port no live router serves says "configured but not         *)
(* active", and one whose port a live router serves carries the status of  *)
(* such a router.                                                          *)
(***************************************************************************)
DeclaredPorts(static) ==
    IF Falsy(static) \/ "entryPoints" \notin DOMAIN static THEN {}
    ELSE {p \in PortTexts : EntryPointName(p) \in DOMAIN static["entryPoints"]}

\* the statuses of the live routers that serve a port, as get_status words them
LiveStatuses(api, p) ==
    IF ~api.reached THEN {}
    ELSE {IF api.routers[i].status = "enabled" THEN "active" ELSE "inactive" :
            i \in {j \in 1..Len(api.routers) :
                      /\ MentionsTcp(api.routers[j].service)
                      /\ LastField(api.routers[j].service) = p}}

C13_LeftJoin ==
    (seen.read /\ seen.active) =>
        LET entries == seen.result.active_tunnels
        IN  /\ seen.result.status = "ok"
            /\ Len(entries) = Cardinality(DeclaredPorts(seen.static))
            /\ {entries[i].port : i \in 1..Len(entries)} = DeclaredPorts(seen.static)
            /\ \A i \in 1..Len(entries) :
                  IF LiveStatuses(seen.api, entries[i].port) = {}
                  THEN entries[i].status = "configured but not active"
                  ELSE entries[i].status \in LiveStatuses(seen.api, entries[i].port)

\* a status with a matched tunnel, an unmatched one, and a live router of neither
C13_Witness ==
    /\ seen.read /\ seen.active
    /\ Len(seen.result.active_tunnels) = 2
    /\ \E i, j \in 1..2 :
          /\ seen.result.active_tunnels[i].status = "configured but not active"
          /\ seen.result.active_tunnels[j].status = "inactive"
    /\ \E k \in 1..Len(seen.api.routers) : seen.api.routers[k].service = <<"api">>

(***************************************************************************)
(* C14  Service-control failures are never swallowed.  Outside a recovery  *)
(* cycle, a failed enable, stop, start or restart makes the operation that *)
(* issued it return failure at once.                                       *)
(***************************************************************************)
C14_NeverSwallowed ==
    [][ ( \/ SetupEnable(FALSE)
          \/ SetupStop(FALSE) /\ svc.active
          \/ SetupStart(FALSE)
          \/ DeleteRestart(FALSE) )
            => (pc' = "returned" /\ ~last'.ok) ]_vars

(***************************************************************************)
(* C15  Probe success requires both checks.  A probe that found the        *)
(* service not active and asked for its restart returns success only if    *)
(* the service is active by then.                                          *)
(***************************************************************************)
ProbeSucceeds(t) ==
    /\ At(t, "api") \/ At(t, "api_unchecked")
    /\ threads'[t].pc \in {"sleep", "rec_recovered"}

C15_BothChecks ==
    [][ \A t \in ThreadIds :
          (At(t, "api_unchecked") /\ ProbeSucceeds(t)) => svc.active ]_vars

(***************************************************************************)
(* C16  Recovery stops at the first success.  When the probe of attempt k  *)
(* succeeds, k attempts have been begun and no exhaustion entry logged;    *)
(* the thread then returns to the polling loop, and no thread begins a     *)
(* recovery restart except after a polling probe that failed.              *)
(***************************************************************************)
C16_AtRecovered ==
    At(1, "rec_recovered") =>
        /\ mon.cycles = threads[1].attempt + 1
        /\ mon.cycles \in 1..RETRY_ATTEMPTS
        /\ mon.logs = 0

C16_BackToPolling ==
    /\ (At(1, "rec_recovered") /\ threads'[1] # threads[1]) =>
          (threads'[1] = AtLoop /\ mon'.cycles = 0 /\ mon'.restarts = 0)
    /\ \A t \in ThreadIds :
          (threads'[t].pc = "rec_restart" /\ threads[t].caller # "recovery") =>
              /\ At(t, "api") \/ At(t, "api_unchecked")
              /\ threads[t].caller = "poll"
              /\ threads'[t].attempt = 0

C16_StopsAtFirstSuccess == [](C16_AtRecovered) /\ [][C16_BackToPolling]_vars

\* the probe after the second restart was the first to succeed
C16_Witness ==
    /\ At(1, "rec_recovered")
    /\ threads[1].attempt = 1
    /\ mon.cycles = 2

(***************************************************************************)
(* C17  No permanent give-up after exhaustion.  After the exhaustion entry *)
(* thread 1 makes no probe before it has waited KEEPALIVE_INTERVAL: until  *)
(* then it is at the head of its loop, waiting, or ended.                  *)
(***************************************************************************)
C17_NextTick ==
    (mon.logs = 1 /\ ~At(1, "rec_exhausted")) =>
        threads[1].pc \in {"loop", "sleep", "dead"}

(***************************************************************************)
(* C19  Prompt cancellation.  Once stop_monitoring has cleared the flag,   *)
(* thread 1 ends before it has slept more than KEEPALIVE_INTERVAL seconds. *)
(***************************************************************************)
C19_WithinOneTick ==
    (~running /\ threads[1].pc \notin {"unborn", "dead"}) =>
        mon.since <= KEEPALIVE_INTERVAL

(***************************************************************************)
(* C18  No call is left pending.  Whatever the service supervisor does,    *)
(* a stop_monitoring that waits for the monitor thread eventually returns. *)
(***************************************************************************)
C18_StopReturns == (pc = "joining") ~> (pc = "idle")

(***************************************************************************)
(* C20  Missing top-level keys are treated as empty.  No add and no delete *)
(* ends with the KeyError of a document that lacks entryPoints, tcp,       *)
(* tcp.routers or tcp.services.                                            *)
(***************************************************************************)
C20_MissingAsEmpty ==
    (pc = "returned" /\ last.op \in {"install", "delete"}) =>
        last.err # "KeyError"

(***************************************************************************)
(* C21  Deleting an undeclared port is a successful no-op.  A delete_tunnel *)
(* for ports that have no entrypoint, router or service in the documents   *)
(* does not return failure when it has loaded them, whatever they hold.    *)
(***************************************************************************)
NoDerivedEntries(port) ==
    /\ EntryPointName(port) \notin DOMAIN EntryPointsOf(Static)
    /\ RouterName(port) \notin DOMAIN RoutersOf(Dynamic)
    /\ ServiceName(port) \notin DOMAIN ServicesOf(Dynamic)

C21_DeleteUndeclared ==
    [][ \A ports \in PortLists :
          (/\ BeginDelete(ports)
           /\ \A i \in 1..Len(ports) : NoDerivedEntries(ports[i])) =>
              ~(pc' = "returned" /\ ~last'.ok) ]_vars

(***************************************************************************)
(* C22  Persistence failure keeps the documents consistent.  When an add   *)
(* or a delete has returned failure because a save failed, every port has  *)
(* its entrypoint in the static document exactly when it has its router    *)
(* and its service in the dynamic one.                                     *)
(***************************************************************************)
C22_SaveFailureConsistent ==
    (pc = "returned" /\ ~last.ok /\ last.err = "SaveError") =>
        \A p \in PortTexts :
            /\ (EntryPointName(p) \in DOMAIN EntryPointsOf(Static))
                  <=> (RouterName(p) \in DOMAIN RoutersOf(Dynamic))
            /\ (EntryPointName(p) \in DOMAIN EntryPointsOf(Static))
                  <=> (ServiceName(p) \in DOMAIN ServicesOf(Dynamic))

(***************************************************************************)
(* C23  Single supervisor.  At most one monitor thread is alive at any     *)
(* time.                                                                   *)
(***************************************************************************)
Alive == {t \in ThreadIds : threads[t] \notin {Unborn, Dead}}

C23_SingleSupervisor == Cardinality(Alive) <= 1

=============================================================================
